---- MODULE Spec2Model ----
(***************************************************************************)
(* Model of lxc/copy.go: copyCmd.run and copyCmd.copyContainer.            *)
(*                                                                         *)
(* Go strings whose structure the code inspects (resource locators,        *)
(* container names, config keys, resource paths) are sequences of tokens,  *)
(* so that splitting and prefix tests are computed, not assumed.  Error    *)
(* values and config values are plain strings; the nil error is Nil.       *)
(* Every call to the lxd client is one step whose outcome (error or        *)
(* result) is chosen by the environment.                                   *)
(***************************************************************************)
EXTENDS Integers, Sequences, FiniteSets, TLC

\* ------------------------------------------------------------------ bounds
\* Largest number of addresses source.Addresses() returns.
MaxAddrs == 2

\* --------------------------------------------------------- program constants
destOpId == 0
sourceOpId == 1
\* make(chan map[int]error, 2)
waitchanCap == 2

Nil == "nil"
EmptyStr == << >>

\* ------------------------------------------------------------ string helpers
\* Index of the first occurrence of token t in s, 0 when absent.
IndexOf(s, t) ==
  IF \E i \in 1..Len(s) : s[i] = t
  THEN CHOOSE i \in 1..Len(s) : s[i] = t /\ \A j \in 1..(i - 1) : s[j] # t
  ELSE 0

\* strings.HasPrefix(k, p)
HasPrefix(k, p) == Len(k) >= Len(p) /\ SubSeq(k, 1, Len(p)) = p

\* strings.Split(s, sep): the fields between the separators, empty ones kept.
RECURSIVE Split(_, _)
Split(s, sep) ==
  LET i == IndexOf(s, sep)
  IN IF i = 0 THEN << s >>
     ELSE << SubSeq(s, 1, i - 1) >> \o Split(SubSeq(s, i + 1, Len(s)), sep)

\* lxd.Config: the remote used when a locator names none.
DefaultRemote == << "local" >>

\* config.ParseRemoteAndContainer(raw): strings.SplitN(raw, ":", 2); without a
\* colon the default remote and the whole string, else the two halves.
ParseRemoteAndContainer(raw) ==
  LET i == IndexOf(raw, ":")
  IN IF i = 0 THEN << DefaultRemote, raw >>
     ELSE << SubSeq(raw, 1, i - 1), SubSeq(raw, i + 1, Len(raw)) >>

\* shared.IsSnapshot(name): the name holds the snapshot delimiter.
IsSnapshot(name) == IndexOf(name, "/") # 0

\* ------------------------------------------------------------ input domains
SourceResources ==
  { EmptyStr, << "c1" >>, << "r1", ":", "c1" >>, << "c1", "/", "s0" >> }
DestResources ==
  { EmptyStr, << "c1" >>, << "c2" >>, << "r1", ":" >>, << "local", ":" >> }

BaseImageKey == << "volatile", ".", "base_image" >>
LimitsKey == << "limits", ".", "cpu" >>
UserKey == << "user", ".", "volatile" >>
ConfigKeys == { BaseImageKey, LimitsKey }
VolatilePrefix == << "volatile" >>

\* Config maps the server may report for the source entity.
FetchedConfigs ==
  UNION { [ S -> { "v1" } ] : S \in SUBSET ConfigKeys }
\* The ambient configMap (the --config overrides); the empty map stands for
\* a nil map as well: ranging over either does nothing.
ConfigOverrides ==
  { << >>, [ k \in { BaseImageKey } |-> "v2" ], [ k \in { UserKey } |-> "v2" ] }

FetchedProfiles == { << "default" >>, << "default", "p1" >> }
\* c.profArgs; the empty list stands for nil as well.
ProfArgs == { << >>, << "p2" >> }
DestCatalogs == { { "default", "p1" }, { "default", "p1", "p2" } }

HandshakeErrs == { "bad handshake", "connection refused" }
DestWaitErrs == { "dest op failed" }
SourceWaitErrs == { "source op failed" }
StatusErrs == { "", "source status error" }

\* Operation.Resources["containers"] of a finished operation, when the key is
\* there: empty, or one path.
CreatedPath == << "/", "1.0", "/", "containers", "/", "c9" >>
ContainerLists == { << >>, << CreatedPath >> }

\* The operation URL GetMigrationSourceWS returns and its secrets.
SourceOperation == "/1.0/operations/op1"
SessionSecrets == [ k \in { "control", "fs" } |-> "s3cr3t" ]
NoSecrets == [ k \in { } |-> "" ]

Range(s) == { s[i] : i \in 1..Len(s) }


\* ------------------------------------------------- fragments of copyContainer
\* Mutant of DefaultDestName: the default applies when no locator is given.
DefaultDestNameWithoutLocator(destName, destResource, sourceName) ==
  IF destName = EmptyStr /\ destResource = EmptyStr THEN sourceName ELSE destName

\* Lines 50-52: the destination name when the locator carries none.
DefaultDestName(destName, destResource, sourceName) ==
  IF destName = EmptyStr /\ destResource # EmptyStr THEN sourceName ELSE destName

\* Lines 95-97: status.Profiles = append(status.Profiles, c.profArgs...)
MergeProfiles(profiles, extra) == profiles \o extra

\* Lines 99-103: overwrite-by-key merge of configMap into status.Config.
MergeConfig(cfg, overrides) ==
  [ k \in (DOMAIN cfg) \cup (DOMAIN overrides) |->
      IF k \in DOMAIN overrides THEN overrides[k] ELSE cfg[k] ]

\* Line 105: a Go map lookup, "" when the key is absent.
BaseImageOf(cfg) == IF BaseImageKey \in DOMAIN cfg THEN cfg[BaseImageKey] ELSE ""

\* Mutant of StripVolatile: only the key equal to the prefix is dropped.
StripVolatileExactKey(cfg, keep) ==
  IF keep THEN cfg
  ELSE [ k \in { x \in DOMAIN cfg : x # VolatilePrefix } |-> cfg[k] ]

\* Lines 107-113: drop every key with the volatile prefix unless kept.
StripVolatile(cfg, keep) ==
  IF keep THEN cfg
  ELSE [ k \in { x \in DOMAIN cfg : ~HasPrefix(x, VolatilePrefix) } |-> cfg[k] ]

\* Mutant of ProfilesSubset: one profile in common is enough.
ProfilesOverlap(profiles, catalog) == Range(profiles) \cap catalog # { }

\* Line 166: sourceProfs.IsSubset(NewStringSet(destProfs))
ProfilesSubset(profiles, catalog) == Range(profiles) \subseteq catalog

\* Lines 238-244: tmp is a one-entry map {senderid: err}; err, ok := tmp[sourceOpId]
\* yields the nil error and ok = false when the sender is the destination
\* waiter, and that err is what the else branch stores in destOpErr.
RecvOk(tmp) == sourceOpId \in DOMAIN tmp
RecvErr(tmp) == IF sourceOpId \in DOMAIN tmp THEN tmp[sourceOpId] ELSE Nil
\* Mutant of RecvSourceOpErr: the error is stored without testing ok.
RecvSourceOpErrUnguarded(tmp, old) == RecvErr(tmp)
RecvSourceOpErr(tmp, old) == IF RecvOk(tmp) THEN RecvErr(tmp) ELSE old
RecvDestOpErr(tmp, old) == IF RecvOk(tmp) THEN old ELSE RecvErr(tmp)

\* Lines 137-143 and 261-267: the name printed from the operation's
\* resources, or no name when the "containers" list is absent or empty.
CreatedName(containers) ==
  LET fields == Split(containers[1], "/") IN fields[Len(fields)]

Result(kind, msg) == [ kind |-> kind, msg |-> msg ]
NoResult == Result("running", "")
MissingResource ==
  Result("MissingResourceError",
         "didn't get any affected image, container or snapshot from server")

\* Mutant of ReportPrinted: the name is printed whatever the locator.
ReportPrintedAlways(destResource, metaFails, ok, containers) ==
  IF ~metaFails /\ ok /\ Len(containers) # 0
  THEN << CreatedName(containers) >>
  ELSE << >>

\* Lines 131-146 and 255-270: what a finished transfer returns, given
\* whether MetadataAsOperation failed, whether Resources has the "containers"
\* key (ok) and the list under it.
ReportResult(destResource, metaFails, ok, containers) ==
  IF destResource = EmptyStr /\ (metaFails \/ ~ok \/ Len(containers) = 0)
  THEN MissingResource
  ELSE Result("ok", "")
ReportPrinted(destResource, metaFails, ok, containers) ==
  IF destResource = EmptyStr /\ ~metaFails /\ ok /\ Len(containers) # 0
  THEN << CreatedName(containers) >>
  ELSE << >>

\* Mutant of ExhaustedResult: a retained client error hides the source's.
ExhaustedResultPrefersClient(statusFails, statusErr, clientErr) ==
  IF ~statusFails /\ statusErr # "" /\ clientErr = Nil
  THEN Result("SourceMigrationError", statusErr)
  ELSE Result("DestinationMigrationError", clientErr)

\* Mutant of ExhaustedResult: the status is read although the query failed.
ExhaustedResultIgnoresQueryError(statusFails, statusErr, clientErr) ==
  IF statusErr # ""
  THEN Result("SourceMigrationError", statusErr)
  ELSE Result("DestinationMigrationError", clientErr)

\* Lines 273-280: the error returned once every address has been tried.
ExhaustedResult(statusFails, statusErr, clientErr) ==
  IF ~statusFails /\ statusErr # ""
  THEN Result("SourceMigrationError", statusErr)
  ELSE Result("DestinationMigrationError", clientErr)

\* Mutant of SameRemote: the test is inverted.
SameRemoteInverted(src, dst) == src # dst

\* Line 116: a local copy when the two remotes are the same.
SameRemote(src, dst) == src = dst

\* Mutant of EphemeralFlag: the test is inverted.
EphemeralFlagInverted(ctEphemeral) == IF ctEphemeral THEN 0 ELSE 1

\* Lines 176-180: the flag taken from the source container.
EphemeralFlag(ctEphemeral) == IF ctEphemeral THEN 1 ELSE 0

\* Mutant of AfterHandshake: the continue after a rejected handshake is lost.
AfterHandshakeAlwaysWaits(err) == "spawn"

\* Lines 223-225: a rejected handshake goes straight to the next address.
AfterHandshake(err) == IF err # Nil THEN "loop" ELSE "spawn"

\* Mutant of SpawnedWaiters: the destination waiter is not started.
SpawnedSourceOnly == { sourceOpId }

\* Lines 230-233: the goroutines started for an accepted handshake.
SpawnedWaiters == { destOpId, sourceOpId }

\* Mutants of RecvCount: one receive too many, and one too few.
RecvCountOneMore == waitchanCap + 1
RecvCountFirstOnly == waitchanCap - 1

\* Line 237: the receive loop runs cap(waitchan) times.
RecvCount == waitchanCap

\* The one element of a one-element set, as a sequence.
SetToSeq(S) == << CHOOSE x \in S : TRUE >>

\* Mutant of SameName: the test is inverted.
SameNameInverted(src, dst) == src # dst

\* Line 117: the same-name test of a same-remote copy.
SameName(src, dst) == src = dst

\* Mutant of NextIdx: the loop tries the same address again.
NextIdxRepeats(k) == k

\* Line 218: the range loop moves to the next address.
NextIdx(k) == k + 1

\* Mutant of RetainErr: the first error is kept.
RetainErrKeepsFirst(old, err) == IF old # Nil THEN old ELSE err

\* Line 222: each MigrateFrom call overwrites migrationErrFromClient.
RetainErr(old, err) == err

\* Mutant of Decision: a source error is retried like a destination error.
DecisionRetriesSourceErr(destErr, sourceErr) ==
  IF destErr # Nil \/ sourceErr # Nil THEN "continue" ELSE "success"

\* Lines 247-253: the branch taken once both results are in.
Decision(destErr, sourceErr) ==
  IF destErr # Nil THEN "continue"
  ELSE IF sourceErr # Nil THEN "returnSourceErr"
  ELSE "success"

\* ----------------------------------------------------------------- state
VARIABLES
  pc,                     \* position of the control thread
  profArgs,               \* c.profArgs
  configMap,              \* the ambient configMap
  sourceResource, destResource, keepVolatile, ephemeral,   \* parameters
  sourceRemote, sourceName, destRemote, destName,
  status,                 \* status.Config, status.Profiles
  fetchedConfig,          \* what the lookup returned, kept for reference
  baseImage,
  destProfs,
  secrets,
  addresses,
  idx,                    \* position of the range loop over addresses
  migrationErrFromClient,
  waitchan,               \* messages in the channel
  waiters,                \* ids of the goroutines still running
  i,                      \* counter of the receive loop
  sourceOpErr, destOpErr,
  result,                 \* what the command returned
  printed,                \* container names printed
  sourceOp, sourceErr,    \* what source.GetOperation returned
  called,                 \* client calls issued so far
  ncalls,                 \* how many times each client call was issued
  received,               \* sender ids received in the current attempt, in order
  ephemeralArg,           \* the ephemeral parameter as passed in
  ct,                     \* what the ephemeral lookup returned
  attempts,               \* one record per MigrateFrom call, in order
  sent                    \* the last LocalCopy / MigrateFrom request

vars ==
  << pc, profArgs, configMap, sourceResource, destResource, keepVolatile,
     ephemeral, sourceRemote, sourceName, destRemote, destName, status,
     fetchedConfig, baseImage, destProfs, secrets, addresses, idx,
     migrationErrFromClient, waitchan, waiters, i, sourceOpErr, destOpErr,
     result, printed, sourceOp, sourceErr, called, ncalls, received,
     ephemeralArg, ct, attempts, sent >>

params == << sourceResource, destResource, keepVolatile, ephemeral, ephemeralArg >>
parsed == << sourceRemote, sourceName, destRemote, destName >>
resolved == << status, fetchedConfig, baseImage >>
session == << secrets, addresses, idx, migrationErrFromClient >>
waiting == << waitchan, waiters, i, sourceOpErr, destOpErr, received >>
polled == << sourceOp, sourceErr >>
calls == << called, ncalls >>
globals == << profArgs, configMap >>

\* The client calls copyContainer makes.
CallNames ==
  { "NewClient(source)", "ContainerInfo", "SnapshotInfo", "LocalCopy",
    "WaitForSuccess(copy)", "NewClient(dest)", "ListProfiles",
    "ContainerInfo(ephemeral)", "GetMigrationSourceWS", "Addresses",
    "MigrateFrom", "GetOperation" }

NotPassed == "<not passed>"
NoRequest ==
  [ call |-> "none", name |-> EmptyStr, config |-> << >>, profiles |-> << >>,
    baseImage |-> NotPassed, ephemeral |-> FALSE, url |-> << >>,
    secrets |-> NoSecrets ]

\* Mutant of MigrateRequest: the secrets are used up by the first handshake.
MigrateRequestSpendsSecrets(k) ==
  [ call |-> "MigrateFrom", name |-> destName,
    config |-> status.Config, profiles |-> status.Profiles,
    baseImage |-> baseImage, ephemeral |-> (ephemeral = 1),
    url |-> << "https://", addresses[k], SourceOperation >>,
    secrets |-> IF k > 1 THEN NoSecrets ELSE secrets ]

\* Lines 221-222: the handshake request for the k-th address.
MigrateRequest(k) ==
  [ call |-> "MigrateFrom", name |-> destName,
    config |-> status.Config, profiles |-> status.Profiles,
    baseImage |-> baseImage, ephemeral |-> (ephemeral = 1),
    url |-> << "https://", addresses[k], SourceOperation >>,
    secrets |-> secrets ]

Init ==
  /\ pc = "idle"
  /\ profArgs \in ProfArgs
  /\ configMap \in ConfigOverrides
  /\ sourceResource = EmptyStr /\ destResource = EmptyStr
  /\ keepVolatile = FALSE /\ ephemeral = 0
  /\ sourceRemote = EmptyStr /\ sourceName = EmptyStr
  /\ destRemote = EmptyStr /\ destName = EmptyStr
  /\ status = [ Config |-> << >>, Profiles |-> << >> ]
  /\ fetchedConfig = << >>
  /\ baseImage = ""
  /\ destProfs = { }
  /\ secrets = NoSecrets
  /\ addresses = << >>
  /\ idx = 1
  /\ migrationErrFromClient = Nil
  /\ waitchan = << >>
  /\ waiters = { }
  /\ i = 0
  /\ sourceOpErr = Nil /\ destOpErr = Nil
  /\ result = NoResult
  /\ printed = << >>
  /\ sourceOp = [ Err |-> "" ]
  /\ sourceErr = Nil
  /\ called = { }
  /\ ncalls = [ c \in CallNames |-> 0 ]
  /\ received = << >>
  /\ ephemeralArg = 0
  /\ ct = [ Ephemeral |-> FALSE ]
  /\ attempts = << >>
  /\ sent = NoRequest

\* return err / return fmt.Errorf(...)
Return(r) == /\ result' = r
             /\ pc' = "done"

Upstream(call) == Result("UpstreamError", call)

\* One call to the lxd client.
Call(name) == /\ called' = called \cup { name }
              /\ ncalls' = [ ncalls EXCEPT ![name] = @ + 1 ]

\* ---------------------------------------------------------------- actions
\* copyCmd.run: the command line gives one or two locators; fewer is errArgs.
run ==
  /\ pc = "idle"
  /\ \E n \in 0..2, src \in SourceResources, dst \in DestResources, ephem \in BOOLEAN :
       IF n < 1
       THEN /\ Return(Result("errArgs", ""))
            /\ UNCHANGED params
       ELSE /\ sourceResource' = src
            /\ ephemeralArg' = IF ephem THEN 1 ELSE 0
            /\ destResource' = IF n < 2 THEN EmptyStr ELSE dst
            /\ keepVolatile' = FALSE
            /\ ephemeral' = IF ephem THEN 1 ELSE 0
            /\ pc' = "parse"
            /\ UNCHANGED result
  /\ UNCHANGED << polled, ct, globals, parsed, resolved, destProfs, session, waiting,
                  printed, calls, attempts, sent >>

\* copyContainer entered with parameters of the caller's choosing.
copyContainer ==
  /\ pc = "idle"
  /\ sourceResource' \in SourceResources
  /\ destResource' \in DestResources
  /\ keepVolatile' \in BOOLEAN
  /\ ephemeral' \in { -1, 0, 1 }
  /\ ephemeralArg' = ephemeral'
  /\ pc' = "parse"
  /\ UNCHANGED << polled, ct, globals, parsed, resolved, destProfs, session, waiting,
                  result, printed, calls, attempts, sent >>

\* Lines 43-52.
ParseArgs ==
  /\ pc = "parse"
  /\ LET src == ParseRemoteAndContainer(sourceResource)
         dst == ParseRemoteAndContainer(destResource)
     IN /\ sourceRemote' = src[1]
        /\ sourceName' = src[2]
        /\ destRemote' = dst[1]
        /\ IF src[2] = EmptyStr
           THEN /\ Return(Result("ArgumentError",
                                 "you must specify a source container name"))
                /\ destName' = dst[2]
           ELSE /\ destName' = DefaultDestName(dst[2], destResource, src[2])
                /\ pc' = "newSource"
                /\ UNCHANGED result
  /\ UNCHANGED << polled, ct, globals, params, resolved, destProfs, session, waiting,
                  printed, calls, attempts, sent >>

\* Lines 54-57.
NewClientSource ==
  /\ pc = "newSource"
  /\ Call("NewClient(source)")
  /\ \E fails \in BOOLEAN :
       IF fails THEN Return(Upstream("NewClient(source)"))
       ELSE pc' = "lookup" /\ UNCHANGED result
  /\ UNCHANGED << polled, ct, globals, params, parsed, resolved, destProfs, session,
                  waiting, printed, attempts, sent >>

\* Lines 72-93: ContainerInfo, or SnapshotInfo for a snapshot name.
LookupSource ==
  /\ pc = "lookup"
  /\ LET call == IF IsSnapshot(sourceName) THEN "SnapshotInfo" ELSE "ContainerInfo"
     IN /\ Call(call)
        /\ \E fails \in BOOLEAN :
             IF fails
             THEN /\ Return(Upstream(call))
                  /\ UNCHANGED resolved
             ELSE /\ \E cfg \in FetchedConfigs, profs \in FetchedProfiles :
                       /\ status' = [ Config |-> cfg, Profiles |-> profs ]
                       /\ fetchedConfig' = cfg
                  /\ pc' = "resolve"
                  /\ UNCHANGED << result, baseImage >>
  /\ UNCHANGED << polled, ct, globals, params, parsed, destProfs, session, waiting,
                  printed, attempts, sent >>

\* Lines 95-113.
ResolveState ==
  /\ pc = "resolve"
  /\ LET merged == MergeConfig(status.Config, configMap)
     IN /\ baseImage' = BaseImageOf(merged)
        /\ status' = [ Config |-> StripVolatile(merged, keepVolatile),
                       Profiles |-> MergeProfiles(status.Profiles, profArgs) ]
  /\ pc' = "route"
  /\ UNCHANGED << polled, ct, globals, params, parsed, fetchedConfig, destProfs, session,
                  waiting, result, printed, calls, attempts, sent >>

\* Lines 116-124: same remote: the name check, then the LocalCopy request.
LocalCopy ==
  /\ pc = "route"
  /\ SameRemote(sourceRemote, destRemote)
  /\ IF SameName(sourceName, destName)
     THEN /\ Return(Result("SameNameError", "can't copy to the same container name"))
          /\ UNCHANGED << calls, sent >>
     ELSE /\ Call("LocalCopy")
          /\ sent' = [ call |-> "LocalCopy", name |-> destName,
                       config |-> status.Config, profiles |-> status.Profiles,
                       baseImage |-> NotPassed, ephemeral |-> (ephemeral = 1),
                       url |-> << >>, secrets |-> NoSecrets ]
          /\ \E fails \in BOOLEAN :
               IF fails THEN Return(Upstream("LocalCopy"))
               ELSE pc' = "localWait" /\ UNCHANGED result
  /\ UNCHANGED << polled, ct, globals, params, parsed, resolved, destProfs, session,
                  waiting, printed, attempts >>

\* Lines 126-146: wait for the copy, then report the created name.
LocalWait ==
  /\ pc = "localWait"
  /\ Call("WaitForSuccess(copy)")
  /\ \E fails \in BOOLEAN :
       IF fails
       THEN /\ Return(Upstream("WaitForSuccess(copy)"))
            /\ UNCHANGED printed
       ELSE \E metaFails \in BOOLEAN, ok \in BOOLEAN, containers \in ContainerLists :
              /\ Return(ReportResult(destResource, metaFails, ok, containers))
              /\ printed' = ReportPrinted(destResource, metaFails, ok, containers)
  /\ UNCHANGED << polled, ct, globals, params, parsed, resolved, destProfs, session,
                  waiting, attempts, sent >>

\* Lines 149-152.
NewClientDest ==
  /\ pc = "route"
  /\ ~SameRemote(sourceRemote, destRemote)
  /\ Call("NewClient(dest)")
  /\ \E fails \in BOOLEAN :
       IF fails THEN Return(Upstream("NewClient(dest)"))
       ELSE pc' = "listProfiles" /\ UNCHANGED result
  /\ UNCHANGED << polled, ct, globals, params, parsed, resolved, destProfs, session,
                  waiting, printed, attempts, sent >>

\* Lines 154-168: the destination's profiles and the subset check.
ListProfiles ==
  /\ pc = "listProfiles"
  /\ Call("ListProfiles")
  /\ \E fails \in BOOLEAN :
       IF fails
       THEN /\ Return(Upstream("ListProfiles"))
            /\ UNCHANGED destProfs
       ELSE \E catalog \in DestCatalogs :
              /\ destProfs' = catalog
              /\ IF ~ProfilesSubset(status.Profiles, catalog)
                 THEN Return(Result("ProfileMismatchError",
                        "not all the profiles from the source exist on the target"))
                 ELSE pc' = "ephemeral" /\ UNCHANGED result
  /\ UNCHANGED << polled, ct, globals, params, parsed, resolved, session, waiting,
                  printed, attempts, sent >>

\* Lines 170-181: an unpinned ephemeral flag is read from the source.
ResolveEphemeral ==
  /\ pc = "ephemeral"
  /\ IF ephemeral = -1
     THEN /\ Call("ContainerInfo(ephemeral)")
          /\ \E fails \in BOOLEAN :
               IF fails
               THEN /\ Return(Upstream("ContainerInfo(ephemeral)"))
                    /\ UNCHANGED << ephemeral, ct >>
               ELSE /\ \E ctEphemeral \in BOOLEAN :
                         /\ ct' = [ Ephemeral |-> ctEphemeral ]
                         /\ ephemeral' = EphemeralFlag(ctEphemeral)
                    /\ pc' = "negotiate"
                    /\ UNCHANGED result
     ELSE /\ pc' = "negotiate"
          /\ UNCHANGED << ephemeral, ct, calls, result >>
  /\ UNCHANGED << polled, globals, sourceResource, destResource, keepVolatile,
                  ephemeralArg, parsed,
                  resolved, destProfs, session, waiting, printed, attempts, sent >>

\* Lines 183-197: the migration session and its secrets.
GetMigrationSourceWS ==
  /\ pc = "negotiate"
  /\ Call("GetMigrationSourceWS")
  /\ \E fails \in BOOLEAN, metaFails \in BOOLEAN :
       IF fails THEN /\ Return(Upstream("GetMigrationSourceWS"))
                     /\ UNCHANGED secrets
       ELSE IF metaFails THEN /\ Return(Upstream("MetadataAsOperation"))
                              /\ UNCHANGED secrets
       ELSE /\ secrets' = SessionSecrets
            /\ pc' = "addresses"
            /\ UNCHANGED result
  /\ UNCHANGED << polled, ct, globals, params, parsed, resolved, destProfs, addresses, idx,
                  migrationErrFromClient, waiting, printed, attempts, sent >>

\* Lines 199-217: address discovery; the channel is made empty.
Addresses ==
  /\ pc = "addresses"
  /\ Call("Addresses")
  /\ \E fails \in BOOLEAN :
       IF fails
       THEN /\ Return(Upstream("Addresses"))
            /\ UNCHANGED << addresses, waitchan, migrationErrFromClient >>
       ELSE /\ \E n \in 0..MaxAddrs : addresses' = [ k \in 1..n |-> k ]
            /\ waitchan' = << >>
            /\ migrationErrFromClient' = Nil
            /\ pc' = "loop"
            /\ UNCHANGED result
  /\ idx' = 1
  /\ UNCHANGED << polled, ct, globals, params, parsed, resolved, destProfs, secrets,
                  waiters, i, sourceOpErr, destOpErr, received, printed,
                  attempts, sent >>

\* Lines 218-225: the handshake with the next address.
MigrateFrom ==
  /\ pc = "loop"
  /\ idx <= Len(addresses)
  /\ Call("MigrateFrom")
  /\ sent' = MigrateRequest(idx)
  /\ \E err \in { Nil } \cup HandshakeErrs :
       /\ migrationErrFromClient' = RetainErr(migrationErrFromClient, err)
       /\ attempts' = Append(attempts, [ addr |-> addresses[idx], handshake |-> err,
                                          dest |-> "-", source |-> "-",
                                          req |-> MigrateRequest(idx) ])
       /\ pc' = AfterHandshake(err)
       /\ idx' = IF AfterHandshake(err) = "loop" THEN NextIdx(idx) ELSE idx
  /\ UNCHANGED << polled, ct, globals, params, parsed, resolved, destProfs, secrets,
                  addresses, waiting, result, printed >>

\* Lines 230-236: the two goroutines and the fresh error variables.
Spawn ==
  /\ pc = "spawn"
  /\ waiters' = waiters \cup SpawnedWaiters
  /\ sourceOpErr' = Nil
  /\ destOpErr' = Nil
  /\ i' = 0
  /\ received' = << >>
  /\ pc' = "receive"
  /\ UNCHANGED << polled, ct, globals, params, parsed, resolved, destProfs, session,
                  waitchan, result, printed, calls, attempts, sent >>

\* Lines 213-215, one goroutine: WaitForSuccess, then the send.
wait(senderid) ==
  /\ senderid \in waiters
  /\ Len(waitchan) < waitchanCap
  /\ \E err \in { Nil } \cup (IF senderid = destOpId THEN DestWaitErrs ELSE SourceWaitErrs) :
       /\ waitchan' = Append(waitchan, [ k \in { senderid } |-> err ])
       /\ attempts' = [ attempts EXCEPT ![Len(attempts)] =
                          IF senderid = destOpId
                          THEN [ @ EXCEPT !.dest = err ]
                          ELSE [ @ EXCEPT !.source = err ] ]
  /\ waiters' = waiters \ { senderid }
  /\ UNCHANGED << pc, polled, ct, globals, params, parsed, resolved, destProfs, session,
                  i, sourceOpErr, destOpErr, received, result, printed, calls,
                  sent >>

\* Lines 237-245: one iteration of the receive loop.
Receive ==
  /\ pc = "receive"
  /\ i < RecvCount
  /\ Len(waitchan) > 0
  /\ LET tmp == Head(waitchan)
     IN /\ sourceOpErr' = RecvSourceOpErr(tmp, sourceOpErr)
        /\ destOpErr' = RecvDestOpErr(tmp, destOpErr)
        /\ received' = received \o SetToSeq(DOMAIN tmp)
  /\ waitchan' = Tail(waitchan)
  /\ i' = i + 1
  /\ UNCHANGED << pc, polled, ct, globals, params, parsed, resolved, destProfs, session,
                  waiters, result, printed, calls, attempts, sent >>

\* Lines 247-271: the decision once both results are in.
Decide ==
  /\ pc = "receive"
  /\ i >= RecvCount
  /\ LET d == Decision(destOpErr, sourceOpErr)
     IN IF d = "continue"
        THEN /\ idx' = NextIdx(idx)
             /\ pc' = "loop"
             /\ UNCHANGED << result, printed >>
        ELSE IF d = "returnSourceErr"
        THEN /\ Return(Result("SourceWaitError", sourceOpErr))
             /\ UNCHANGED << idx, printed >>
        ELSE /\ \E metaFails \in BOOLEAN, ok \in BOOLEAN, containers \in ContainerLists :
                  /\ Return(ReportResult(destResource, metaFails, ok, containers))
                  /\ printed' = ReportPrinted(destResource, metaFails, ok, containers)
             /\ UNCHANGED idx
  /\ UNCHANGED << polled, ct, globals, params, parsed, resolved, destProfs, secrets,
                  addresses, migrationErrFromClient, waiting, calls, attempts, sent >>

\* Lines 273-280: every address was tried; ask the source what happened.
GetOperation ==
  /\ pc = "loop"
  /\ idx > Len(addresses)
  /\ Call("GetOperation")
  /\ \E statusFails \in BOOLEAN, statusErr \in StatusErrs :
       /\ sourceErr' = IF statusFails THEN "status query failed" ELSE Nil
       /\ sourceOp' = [ Err |-> IF statusFails THEN "" ELSE statusErr ]
       /\ Return(ExhaustedResult(statusFails, statusErr, migrationErrFromClient))
  /\ UNCHANGED << ct, globals, params, parsed, resolved, destProfs, session,
                  waiting, printed, attempts, sent >>

Next ==
  \/ run
  \/ copyContainer
  \/ ParseArgs
  \/ NewClientSource
  \/ LookupSource
  \/ ResolveState
  \/ LocalCopy
  \/ LocalWait
  \/ NewClientDest
  \/ ListProfiles
  \/ ResolveEphemeral
  \/ GetMigrationSourceWS
  \/ Addresses
  \/ MigrateFrom
  \/ Spawn
  \/ \E senderid \in { destOpId, sourceOpId } : wait(senderid)
  \/ Receive
  \/ Decide
  \/ GetOperation

Spec == Init /\ [][Next]_vars

\* Every client call returns and every goroutine is scheduled: a step that
\* stays possible is eventually taken. The runs are those without --config
\* overrides, which play no part after the state is resolved.
FairInit == Init /\ configMap = << >>
FairSpec == FairInit /\ [][Next]_vars /\ WF_vars(Next)

\* ------------------------------------------------------------ properties
Done == pc = "done"
Last == attempts[Len(attempts)]
Migrated == Len(attempts) > 0
WaitFailed(r) == r # Nil /\ r # "-"
Succeeded == Done /\ result.kind = "ok"
\* Every handshake before the last attempt was rejected.
EarlierRejected == \A k \in 1..(Len(attempts) - 1) : attempts[k].handshake # Nil
\* The attempts made so far went through the discovered addresses in order.
InDiscoveryOrder ==
  /\ Len(attempts) <= Len(addresses)
  /\ \A k \in 1..Len(attempts) : attempts[k].addr = addresses[k]

\* C1: a migration reports success only when the last attempt's handshake
\* was accepted and both its destination wait and its source wait returned
\* without error; success never follows a failed destination wait.
C1_SuccessOnlyAfterBothWaitsOk ==
  (Succeeded /\ Migrated) =>
     /\ Last.handshake = Nil
     /\ Last.dest = Nil
     /\ Last.source = Nil

\* C2: a failed destination wait never ends the run from inside that
\* attempt: whatever the source wait returned, the loop moves on, so a run
\* that is over after such an attempt ended at the exhaustion report.
C2_DestWaitFailureAdvances ==
  (Done /\ Migrated /\ Last.handshake = Nil /\ WaitFailed(Last.dest)) =>
     /\ "GetOperation" \in called
     /\ result.kind \in { "SourceMigrationError", "DestinationMigrationError" }

\* C3: when an accepted attempt's source wait failed and its destination wait
\* succeeded, the run returns that source error: the attempt stays the last
\* one (no further handshake) and the source status is never queried.
C3_SourceWaitFailureIsFatal ==
  \A k \in 1..Len(attempts) :
     (attempts[k].handshake = Nil /\ attempts[k].dest = Nil /\ WaitFailed(attempts[k].source)) =>
        /\ k = Len(attempts)
        /\ pc \in { "receive", "done" }
        /\ "GetOperation" \notin called
        /\ Done => result = Result("SourceWaitError", attempts[k].source)

\* C3 witness: the first of two addresses is accepted, its destination wait
\* succeeds, its source wait fails, and the run is over with that error.
C3_Witness ==
  /\ Done
  /\ Len(addresses) = 2
  /\ Len(attempts) = 1
  /\ Last.handshake = Nil /\ Last.dest = Nil /\ WaitFailed(Last.source)
  /\ result = Result("SourceWaitError", Last.source)

\* The case of C4: the run is over, every address before the last attempt
\* rejected the handshake, the last one accepted it and both waits succeeded.
C4_Case ==
  /\ Done /\ Migrated
  /\ EarlierRejected
  /\ Last.handshake = Nil /\ Last.dest = Nil /\ Last.source = Nil

\* C4 as stated: in that case copyContainer reports success, after exactly
\* one handshake per address, in discovery order.
C4_SuccessAtNthAddress ==
  C4_Case => (result.kind = "ok" /\ InDiscoveryOrder)

\* C4 amended: while every earlier handshake was rejected there has been
\* exactly one handshake per address, in discovery order; and in the case of
\* C4 the source status was not queried and the run reports success, except
\* that with no destination locator it returns the missing-resource error
\* when the destination operation names no container.
C4_SuccessOrMissingResource ==
  /\ (Migrated /\ EarlierRejected) => InDiscoveryOrder
  /\ C4_Case =>
     /\ "GetOperation" \notin called
     /\ \/ result.kind = "ok"
        \/ (result = MissingResource /\ destResource = EmptyStr /\ printed = << >>)
     /\ destResource # EmptyStr => result.kind = "ok"

\* C4 witness: the first address rejected the handshake, the second one
\* accepted it, both waits succeeded and the run reported success.
C4_Witness ==
  /\ C4_Case
  /\ Len(attempts) = 2
  /\ attempts[1].handshake \in HandshakeErrs
  /\ result.kind = "ok"

\* C5: at exhaustion, a status query that succeeds and carries an error
\* string makes the source migration error, with that string, the result.
C5_SourceStatusErrorWins ==
  (Done /\ "GetOperation" \in called /\ sourceErr = Nil /\ sourceOp.Err # "") =>
     /\ result = Result("SourceMigrationError", sourceOp.Err)
     /\ \A k \in 1..Len(attempts) :
          attempts[k].handshake # Nil \/ WaitFailed(attempts[k].dest)

\* C5 witness: two addresses, both handshakes rejected, the status carries an
\* error string and the run ends with the source migration error.
C5_Witness ==
  /\ Done
  /\ Len(attempts) = 2
  /\ \A k \in 1..2 : attempts[k].handshake \in HandshakeErrs
  /\ sourceOp.Err # ""
  /\ result.kind = "SourceMigrationError"

\* The destination-side failure of an attempt: its handshake error, or its
\* destination wait error when the handshake was accepted.
DestFailure(a) == IF a.handshake # Nil THEN a.handshake ELSE a.dest

ProfileMissing ==
  /\ "ListProfiles" \in called
  /\ result # Upstream("ListProfiles")
  /\ \E q \in 1..Len(status.Profiles) : status.Profiles[q] \notin destProfs

\* C7: once the fetched catalog lacks a profile of the merged list, the run
\* is over with the profile-mismatch error, and no migration session was
\* negotiated, no address discovered and no handshake attempted.
C7_ProfileMismatchStopsMigration ==
  ProfileMissing =>
     /\ Done
     /\ result.kind = "ProfileMismatchError"
     /\ called \cap { "GetMigrationSourceWS", "Addresses", "MigrateFrom",
                      "ContainerInfo(ephemeral)", "GetOperation" } = { }
     /\ secrets = NoSecrets
     /\ attempts = << >>
     /\ sent = NoRequest

\* C7 witness: the only missing profile is one the caller added.
C7_Witness ==
  /\ ProfileMissing
  /\ profArgs # << >>
  /\ \A q \in 1..Len(status.Profiles) :
       status.Profiles[q] \notin destProfs => status.Profiles[q] \in Range(profArgs)
  /\ result.kind = "ProfileMismatchError"

\* The request is a same-remote copy onto the source's own name.
SameEndpointSameName ==
  /\ pc \notin { "idle", "parse" }
  /\ sourceName # EmptyStr
  /\ sourceRemote = destRemote
  /\ sourceName = destName

LookupCall == IF IsSnapshot(sourceName) THEN "SnapshotInfo" ELSE "ContainerInfo"

\* C8 as stated: the same-name error is returned before any client call.
C8_SameNameBeforeAnyCall ==
  result.kind = "SameNameError" => called = { }

\* C8 amended: a same-remote copy onto the source's own name never issues a
\* copy request, and ends with the same-name error unless the source client
\* connection or the source lookup failed first; those two calls, and only
\* those, precede the same-name error.
C8_SameNameBeforeCopyRequest ==
  /\ SameEndpointSameName =>
       /\ called \subseteq { "NewClient(source)", LookupCall }
       /\ sent = NoRequest
       /\ Done => \/ result.kind = "SameNameError"
                  \/ result \in { Upstream("NewClient(source)"), Upstream(LookupCall) }
  /\ result.kind = "SameNameError" =>
       /\ SameEndpointSameName
       /\ called = { "NewClient(source)", LookupCall }

\* C8 witness: the destination locator names only the source's remote, the
\* name defaults to the source's, and the run ends with the same-name error.
C8_Witness ==
  /\ Done
  /\ SameEndpointSameName
  /\ destResource = << "local", ":" >>
  /\ result.kind = "SameNameError"
  /\ "ContainerInfo" \in called

\* The base image the source reports once the overrides are applied.
ExpectedBaseImage ==
  IF BaseImageKey \in DOMAIN configMap THEN configMap[BaseImageKey]
  ELSE IF BaseImageKey \in DOMAIN fetchedConfig THEN fetchedConfig[BaseImageKey]
  ELSE ""

NoVolatileKeySent ==
  \A k \in DOMAIN sent.config : k[1] # "volatile"

\* The request carries the base image, as its own argument or in its config.
BaseImageForwarded ==
  \/ ExpectedBaseImage = ""
  \/ sent.baseImage = ExpectedBaseImage
  \/ (BaseImageKey \in DOMAIN sent.config /\ sent.config[BaseImageKey] = ExpectedBaseImage)

\* C9 as stated: without preservation no volatile key is sent, and the base
\* image is forwarded on every transfer path whatever the preservation flag.
C9_BaseImageOnEveryPath ==
  sent.call # "none" =>
     /\ ~keepVolatile => NoVolatileKeySent
     /\ BaseImageForwarded

\* C9 amended: without preservation no volatile key is sent to LocalCopy or
\* MigrateFrom; MigrateFrom carries the recorded base image whatever the
\* preservation flag; LocalCopy carries no base-image argument, so there the
\* value travels only inside the config, and only under preservation.
C9_VolatileStrippedBaseImageOnMigration ==
  sent.call # "none" =>
     /\ ~keepVolatile => NoVolatileKeySent
     /\ keepVolatile => sent.config = MergeConfig(fetchedConfig, configMap)
     /\ \A k \in (DOMAIN fetchedConfig \cup DOMAIN configMap) :
          k[1] # "volatile" => k \in DOMAIN sent.config
     /\ sent.call = "MigrateFrom" => sent.baseImage = ExpectedBaseImage
     /\ sent.call = "LocalCopy" => sent.baseImage = NotPassed

\* C9 witness: a migration without preservation whose source has a base
\* image: the config sent has no volatile key and the value is passed along.
C9_Witness ==
  /\ sent.call = "MigrateFrom"
  /\ ~keepVolatile
  /\ BaseImageKey \in DOMAIN fetchedConfig
  /\ NoVolatileKeySent
  /\ sent.baseImage = ExpectedBaseImage
  /\ sent.baseImage # ""

\* The name part of the destination locator.
DestLocatorName == ParseRemoteAndContainer(destResource)[2]

\* copyContainer was entered and has parsed its locators.
Parsed == pc \notin { "idle", "parse" } /\ result.kind # "errArgs"

ArgumentErrorOnEmptySource ==
  (Parsed /\ sourceName = EmptyStr) =>
     /\ Done
     /\ result.kind = "ArgumentError"
     /\ called = { }

\* C10 as stated: an empty source name is the argument error, and without a
\* destination locator the name passed to LocalCopy / MigrateFrom is the
\* source name.
C10_DestNameDefaultsWithoutLocator ==
  /\ ArgumentErrorOnEmptySource
  /\ (sent.call # "none" /\ destResource = EmptyStr) => sent.name = sourceName

\* C10 amended: an empty source name is the argument error; the name passed
\* to LocalCopy / MigrateFrom is empty when no destination locator is given,
\* the source name when the locator is given without a name part, and the
\* locator's name part otherwise.
C10_DestNameDefaultsForBareRemote ==
  /\ ArgumentErrorOnEmptySource
  /\ sent.call # "none" =>
       sent.name = IF destResource = EmptyStr THEN EmptyStr
                   ELSE IF DestLocatorName = EmptyStr THEN sourceName
                   ELSE DestLocatorName

\* C10 witness: the destination locator names only a remote and the
\* handshake carries the source name.
C10_Witness ==
  /\ sent.call = "MigrateFrom"
  /\ destResource = << "r1", ":" >>
  /\ sent.name = sourceName
  /\ sourceName # EmptyStr

\* C11 as stated: on success the created name is printed exactly when the
\* destination locator carries no name, a locator naming only a remote
\* included.
C11_NameReportedUnlessNamePinned ==
  Succeeded => (printed # << >> <=> DestLocatorName = EmptyStr)

\* C11 amended: on success the created name (the last segment of the first
\* path under "containers") is printed exactly when no destination locator
\* was given; a locator naming only a remote prints nothing. The
\* missing-resource error is returned only without a locator, after the
\* transfer, and nothing is printed then.
C11_NameReportedWithoutLocator ==
  /\ Succeeded => (printed # << >> <=> destResource = EmptyStr)
  /\ printed # << >> => (Succeeded /\ printed = << << "c9" >> >>)
  /\ result = MissingResource =>
       (destResource = EmptyStr /\ printed = << >> /\ sent # NoRequest)

\* C11 witness: a migration to a locator naming only a remote succeeds and
\* prints no name.
C11_Witness ==
  /\ Succeeded
  /\ destResource = << "r1", ":" >>
  /\ sent.call = "MigrateFrom"
  /\ printed = << >>

\* The sender ids of the messages in the channel.
InChannel == UNION { DOMAIN waitchan[m] : m \in 1..Len(waitchan) }
BothWaiters == { destOpId, sourceOpId }
\* The last handshake was accepted and its two results have been taken.
Joined == Migrated /\ Last.handshake = Nil /\ pc \notin { "spawn", "receive" }

\* C12: while the control thread collects the results of an accepted
\* handshake, each of the two waiters is either still running, or has its one
\* message in the channel, or has had it received; and the control thread
\* leaves the receive loop only with one result from each.
C12_TwoWaitersOneResultEach ==
  /\ pc = "receive" =>
       /\ waiters \cup InChannel \cup Range(received) = BothWaiters
       /\ Cardinality(waiters) + Len(waitchan) + Len(received) = 2
       /\ i = Len(received)
  /\ Joined =>
       /\ Range(received) = BothWaiters
       /\ Len(received) = 2
       /\ Last.dest # "-" /\ Last.source # "-"

\* C12 witness: the run is over after the source's result was received
\* first and the destination's second.
C12_Witness ==
  /\ Done /\ Joined
  /\ received = << sourceOpId, destOpId >>

\* What the receive loop records for a pair of wait results, and the branch
\* taken: the source's error is recorded as it is; the destination's entry
\* is the nil error for every pair (the lookup of line 239).
RecordedFor(destRes, sourceRes) == << Nil, sourceRes >>
BranchFor(destRes, sourceRes) ==
  IF sourceRes # Nil THEN "returnSourceErr" ELSE "success"

\* C13: once both messages are received, destOpErr, sourceOpErr and the
\* branch are the values above for the pair of wait results, in whichever
\* order the two messages arrived.
C13_DecisionIndependentOfArrivalOrder ==
  (Migrated /\ Last.handshake = Nil /\ Len(received) = 2) =>
     /\ << destOpErr, sourceOpErr >> = RecordedFor(Last.dest, Last.source)
     /\ Decision(destOpErr, sourceOpErr) = BranchFor(Last.dest, Last.source)
     /\ Done => IF BranchFor(Last.dest, Last.source) = "returnSourceErr"
                THEN result = Result("SourceWaitError", Last.source)
                ELSE result.kind \in { "ok", "MissingResourceError" }

\* C13 witness: both waits failed, the destination's failure arrived first,
\* and the run still ended with the source's error.
C13_Witness ==
  /\ Done
  /\ received = << destOpId, sourceOpId >>
  /\ WaitFailed(Last.dest) /\ WaitFailed(Last.source)
  /\ result = Result("SourceWaitError", Last.source)

\* C14: handshakes go through the discovered addresses in order, one per
\* address; an attempt is followed by another only if it failed at the
\* destination; and a rejected handshake has no waiter and no wait: its wait
\* results stay unset and the control thread is back at the loop head (or
\* has returned) with no goroutine running and nothing in the channel.
C14_AddressesInOrderNoWaitOnReject ==
  /\ InDiscoveryOrder
  /\ \A k \in 1..(Len(attempts) - 1) :
       attempts[k].handshake # Nil \/ WaitFailed(attempts[k].dest)
  /\ \A k \in 1..Len(attempts) :
       attempts[k].handshake # Nil =>
          (attempts[k].dest = "-" /\ attempts[k].source = "-")
  /\ (Migrated /\ Last.handshake # Nil) =>
       (pc \in { "loop", "done" } /\ waiters = { } /\ waitchan = << >>)

\* C14 witness: the first address rejected the handshake, nothing was waited
\* on for it, and the second address was tried and accepted.
C14_Witness ==
  /\ Len(attempts) = 2
  /\ attempts[1].handshake \in HandshakeErrs
  /\ attempts[1].dest = "-" /\ attempts[1].source = "-"
  /\ attempts[2].addr = addresses[2]
  /\ attempts[2].handshake = Nil
  /\ Done

MigrationCalls ==
  { "NewClient(dest)", "ListProfiles", "ContainerInfo(ephemeral)",
    "GetMigrationSourceWS", "Addresses", "MigrateFrom", "GetOperation" }
SameEndpoint == Parsed /\ sourceName # EmptyStr /\ sourceRemote = destRemote
CrossEndpoint == Parsed /\ sourceName # EmptyStr /\ sourceRemote # destRemote

\* C15: a same-remote transfer makes none of the migration's calls (no
\* catalog, no session, no addresses, no handshake) and at most one LocalCopy
\* with at most one wait after it; a cross-remote transfer makes no LocalCopy
\* and lists the destination's profiles at most once, exactly once before
\* any handshake, however many addresses are tried.
C15_ProfileCheckOncePerMigration ==
  /\ SameEndpoint =>
       /\ called \cap MigrationCalls = { }
       /\ destProfs = { } /\ secrets = NoSecrets
       /\ addresses = << >> /\ attempts = << >>
       /\ ncalls["LocalCopy"] <= 1
       /\ ncalls["WaitForSuccess(copy)"] <= ncalls["LocalCopy"]
  /\ CrossEndpoint =>
       /\ ncalls["LocalCopy"] = 0 /\ ncalls["WaitForSuccess(copy)"] = 0
       /\ ncalls["ListProfiles"] <= 1
       /\ ncalls["MigrateFrom"] = Len(attempts)
       /\ Migrated => /\ ncalls["ListProfiles"] = 1
                      /\ \A q \in 1..Len(status.Profiles) : status.Profiles[q] \in destProfs

\* C15 witness: a cross-remote transfer tried two addresses after one
\* listing of the destination's profiles.
C15_Witness ==
  /\ CrossEndpoint
  /\ ncalls["MigrateFrom"] = 2
  /\ ncalls["ListProfiles"] = 1

\* A handshake request without the address it was sent to.
SansUrl(req) == [ req EXCEPT !.url = << >> ]

\* C16: every handshake of a migration carries the same secrets, the same
\* source operation and the same state (name, config, profiles, base image,
\* ephemeral flag), only the address differs; and each handshake is made, and
\* each pair of waiters started, with the channel empty and no goroutine left.
C16_SessionReusedUnmodified ==
  /\ \A j, k \in 1..Len(attempts) : SansUrl(attempts[j].req) = SansUrl(attempts[k].req)
  /\ \A k \in 1..Len(attempts) :
       /\ attempts[k].req.secrets = secrets
       /\ attempts[k].req.url = << "https://", addresses[k], SourceOperation >>
       /\ attempts[k].req.config = status.Config
       /\ attempts[k].req.profiles = status.Profiles
  /\ pc \in { "loop", "spawn" } => (waitchan = << >> /\ waiters = { })

\* C16 witness: two handshakes were made with the session's secrets, to two
\* different addresses.
C16_Witness ==
  /\ Len(attempts) = 2
  /\ attempts[1].req.secrets = SessionSecrets
  /\ attempts[2].req.secrets = SessionSecrets
  /\ attempts[1].req.url # attempts[2].req.url

\* The outcome of the address loop as the three kinds of end: success, the
\* source's error, the destination's error.
ThreeOutcomes ==
  IF result.kind = "ok" THEN "success"
  ELSE IF result.kind \in { "SourceWaitError", "SourceMigrationError" } THEN "source error"
  ELSE IF result.kind = "DestinationMigrationError" THEN "destination error"
  ELSE "none"

\* The same with the fourth end the loop body has: the missing-resource error
\* returned by the name report after both waits were taken as successful.
Outcome ==
  IF result.kind = "MissingResourceError" THEN "missing resource"
  ELSE ThreeOutcomes

\* C17 as stated: under fairness, a migration that has its candidate
\* addresses always ends, with success, a source error or a destination
\* error, after at most one handshake per address.
C17_TerminatesWithThreeOutcomes ==
  /\ (pc = "loop") ~> (Done /\ ThreeOutcomes # "none")
  /\ [](Len(attempts) <= Len(addresses))

\* C17 amended: under fairness, a migration that has its candidate addresses
\* always ends, with success, a source error, a destination error or the
\* missing-resource error (only without a destination locator, after an
\* accepted handshake whose two results were taken), and never makes more
\* handshakes than there are addresses.
C17_MigrationTerminates ==
  /\ (pc = "loop") ~> (Done /\ Outcome # "none")
  /\ [](Len(attempts) <= Len(addresses))
  /\ []((Done /\ "Addresses" \in called /\ result # Upstream("Addresses")) => Outcome # "none")
  /\ [](Outcome = "missing resource" /\ sent.call = "MigrateFrom" =>
          (destResource = EmptyStr /\ Joined /\ Len(attempts) >= 1))

\* C17 witness: a run over two addresses that ended after two handshakes.
C17_Witness ==
  /\ Done
  /\ Len(addresses) = 2
  /\ Len(attempts) = 2
  /\ Outcome = "destination error"

\* The lookup of the source container's ephemeral setting (line 171).
EphemeralLookup == "ContainerInfo(ephemeral)"

\* A flag given as 0 or 1 is passed on as it is, and nothing is looked up.
PinnedFlagForwarded ==
  ephemeralArg # -1 =>
     /\ ncalls[EphemeralLookup] = 0
     /\ sent.call # "none" => sent.ephemeral = (ephemeralArg = 1)

\* C18 as stated: with the flag left open (-1), the flag sent with LocalCopy
\* or MigrateFrom is the source container's setting, looked up once; a flag
\* given as 0 or 1 is passed on without a lookup.
C18_EphemeralResolvedOnEveryPath ==
  /\ (sent.call # "none" /\ ephemeralArg = -1) =>
       /\ ncalls[EphemeralLookup] = 1
       /\ sent.ephemeral = ct.Ephemeral
  /\ PinnedFlagForwarded

\* C18 amended: with the flag left open, a migration looks the setting up
\* once, before the session is requested, and every handshake carries it; a
\* local copy looks nothing up and sends a non-ephemeral flag; a flag given
\* as 0 or 1 is passed on without a lookup.
C18_EphemeralResolvedOnMigration ==
  /\ (sent.call = "MigrateFrom" /\ ephemeralArg = -1) =>
       /\ ncalls[EphemeralLookup] = 1
       /\ sent.ephemeral = ct.Ephemeral
  /\ ("GetMigrationSourceWS" \in called /\ ephemeralArg = -1) =>
       /\ ncalls[EphemeralLookup] = 1
       /\ ephemeral = EphemeralFlag(ct.Ephemeral)
  /\ (sent.call = "LocalCopy" /\ ephemeralArg = -1) =>
       /\ ncalls[EphemeralLookup] = 0
       /\ sent.ephemeral = FALSE
  /\ PinnedFlagForwarded

\* C18 witness: the flag was left open, the source container is ephemeral,
\* and the handshake asks for an ephemeral container.
C18_Witness ==
  /\ sent.call = "MigrateFrom"
  /\ ephemeralArg = -1
  /\ ct.Ephemeral
  /\ sent.ephemeral

\* C19: the channel never holds more than its two slots; a running waiter
\* always has a free slot for its send; every message in the channel is a
\* result of the attempt under way; and whenever the control thread is at the
\* head of the address loop or has returned, the channel is empty and no
\* waiter is running.
C19_ChannelBoundedAndDrained ==
  /\ Len(waitchan) <= waitchanCap
  /\ Cardinality(waiters) + Len(waitchan) <= waitchanCap
  /\ \A m \in 1..Len(waitchan) : \A id \in DOMAIN waitchan[m] :
       /\ Migrated /\ Last.handshake = Nil /\ pc = "receive"
       /\ waitchan[m][id] = IF id = destOpId THEN Last.dest ELSE Last.source
  /\ pc \in { "loop", "done" } => (waitchan = << >> /\ waiters = { })
  /\ pc \notin { "spawn", "receive" } => InChannel \cup waiters = { }

\* C19 witness: both waiters of the second address's attempt have sent
\* before the control thread received anything, and the channel is full.
C19_Witness ==
  /\ pc = "receive" /\ i = 0
  /\ Len(waitchan) = waitchanCap
  /\ waiters = { }
  /\ Len(attempts) = 2

\* Address discovery succeeded and returned no address.
EmptyDiscovery ==
  /\ pc \in { "loop", "done" }
  /\ "Addresses" \in called
  /\ result # Upstream("Addresses")
  /\ addresses = << >>

\* C20: after a discovery that returned no address there is no handshake, no
\* waiter and no message; the status of the source operation is asked for
\* once, and the run ends with the source's error when the status has an
\* error string and otherwise with the destination error around a nil cause,
\* never with success. Whenever the status query itself fails, the run ends
\* with the destination error around the last handshake error.
C20_EmptyDiscoveryFails ==
  /\ EmptyDiscovery =>
       /\ attempts = << >> /\ ncalls["MigrateFrom"] = 0 /\ sent = NoRequest
       /\ waiters = { } /\ waitchan = << >> /\ received = << >>
       /\ ncalls["GetOperation"] = IF Done THEN 1 ELSE 0
       /\ Done =>
            result = IF sourceErr = Nil /\ sourceOp.Err # ""
                     THEN Result("SourceMigrationError", sourceOp.Err)
                     ELSE Result("DestinationMigrationError", Nil)
  /\ ncalls["GetOperation"] <= 1
  /\ (Done /\ "GetOperation" \in called /\ sourceErr # Nil) =>
       result = Result("DestinationMigrationError", migrationErrFromClient)

\* C20 witness: no address was discovered, the status had no error string,
\* and the run ended with the destination error around nil.
C20_Witness ==
  /\ Done /\ EmptyDiscovery
  /\ "GetOperation" \in called
  /\ sourceErr = Nil
  /\ result = Result("DestinationMigrationError", Nil)

====
